---- MODULE Spec2Model ----
(***************************************************************************)
(* Model of logrusbun: a bun query hook that turns a completed query event *)
(* into one call on a logrus logger.  NewQueryHook builds the hook from an *)
(* ordered list of options; AfterQuery classifies one event and dispatches *)
(* the rendered message.                                                   *)
(***************************************************************************)
EXTENDS Integers, Sequences, FiniteSets, TLC

VARIABLES env, pc, options, hook, panicMsg, nLogged, last

vars == <<env, pc, options, hook, panicMsg, nLogged, last>>

(***************************************************************************)
(* Bounds of the model.                                                    *)
(***************************************************************************)
MaxLevel == 6
MaxSlow == 2
MaxLogged == 2
MaxOpts == 3
MaxWord == 17

(***************************************************************************)
(* logrus.Level values (logrus: PanicLevel Level = iota, ...).             *)
(***************************************************************************)
PanicLevel == 0
FatalLevel == 1
ErrorLevel == 2
WarnLevel == 3
InfoLevel == 4
DebugLevel == 5

Levels == 0..MaxLevel

(***************************************************************************)
(* Environment: os.LookupEnv(key) is (value, ok); Unset stands for !ok.    *)
(***************************************************************************)
Unset == "<unset>"
EnvKeys == {"BUNDEBUG", "DEBUG"}
EnvValues == {"", "0", "1", "2"}

LookupEnv(e, key) == [value |-> IF e[key] = Unset THEN "" ELSE e[key], ok |-> e[key] # Unset]

(***************************************************************************)
(* Templates.  A template string parses into the set of LogEntryVars       *)
(* fields it interpolates; rendering yields the values of those fields.    *)
(***************************************************************************)
DefaultErrorTemplate == "{{.Operation}}[{{.Duration}}]: {{.Query}}: {{.Error}}"
DefaultMessageTemplate == "{{.Operation}}[{{.Duration}}]: {{.Query}}"
CustomTemplate == "{{.Timestamp}} {{.Query}}"
UnparsableTemplate == "{{.Error}"
UnknownFieldTemplate == "{{.Rows}}"

LogEntryFields == {"Timestamp", "Query", "Operation", "Duration", "Error"}

\* template.New(name).Parse(text): err # "" when the text does not parse
Parse(text) ==
    CASE text = DefaultErrorTemplate ->
            [fields |-> {"Operation", "Duration", "Query", "Error"}, err |-> ""]
      [] text = DefaultMessageTemplate ->
            [fields |-> {"Operation", "Duration", "Query"}, err |-> ""]
      [] text = CustomTemplate ->
            [fields |-> {"Timestamp", "Query"}, err |-> ""]
      [] text = UnknownFieldTemplate ->
            [fields |-> {"Rows"}, err |-> ""]
      [] OTHER ->
            [fields |-> {}, err |-> "template: unexpected \"}\" in operand"]

\* tmpl.Execute(&msg, args): fails on a field LogEntryVars does not have
Execute(fields, args) ==
    IF fields \subseteq LogEntryFields
    THEN [msg |-> [f \in fields |-> args[f]], err |-> ""]
    ELSE [msg |-> [f \in {} |-> ""], err |-> "template: can't evaluate field"]

(***************************************************************************)
(* QueryHook and its options.  A nil pointer is the empty sequence, a      *)
(* non-nil one the one-element sequence of what it points to.              *)
(***************************************************************************)
NilLogger == "nil"
Logger == "log"

NewHook == [enabled |-> FALSE, verbose |-> FALSE, opts |-> <<>>,
            errorTemplate |-> <<>>, messageTemplate |-> <<>>]

WithEnabled(on, h) == [h EXCEPT !.enabled = on]

WithVerbose(on, h) == [h EXCEPT !.verbose = on]

\* the first key of keys that is set in e, 0 when none is
RECURSIVE FirstSet(_, _, _)
FirstSet(e, keys, i) ==
    IF i > Len(keys) THEN 0
    ELSE IF LookupEnv(e, keys[i]).ok THEN i
    ELSE FirstSet(e, keys, i + 1)

\* FromEnv reading the variable with os.Getenv: unset reads as ""
FromEnv_Getenv(keys, h, e) ==
    LET ks == IF Len(keys) = 0 THEN <<"BUNDEBUG">> ELSE keys
        v == LookupEnv(e, ks[1]).value
    IN  [h EXCEPT !.enabled = (v # "" /\ v # "0"), !.verbose = (v = "2")]

FromEnv(keys, h, e) ==
    LET ks == IF Len(keys) = 0 THEN <<"BUNDEBUG">> ELSE keys
        i == FirstSet(e, ks, 1)
    IN  IF i = 0 THEN h
        ELSE LET v == LookupEnv(e, ks[i]).value
             IN  [h EXCEPT !.enabled = (v # "" /\ v # "0"),
                           !.verbose = (v = "2")]

\* the option's closure: result hook and the panic it raised ("" for none)
WithQueryHookOptions(o, h) ==
    LET o1 == IF o.ErrorTemplate = ""
              THEN [o EXCEPT !.ErrorTemplate = DefaultErrorTemplate] ELSE o
        o2 == IF o1.MessageTemplate = ""
              THEN [o1 EXCEPT !.MessageTemplate = DefaultMessageTemplate] ELSE o1
        et == Parse(o2.ErrorTemplate)
        mt == Parse(o2.MessageTemplate)
    IN  IF et.err # "" THEN [h |-> [h EXCEPT !.opts = <<o2>>], panic |-> et.err]
        ELSE IF mt.err # "" THEN [h |-> [h EXCEPT !.opts = <<o2>>], panic |-> mt.err]
        ELSE [h |-> [h EXCEPT !.opts = <<o2>>,
                              !.errorTemplate = <<et.fields>>,
                              !.messageTemplate = <<mt.fields>>],
              panic |-> ""]

NoOpts == [LogSlow |-> 0, Logger |-> NilLogger, QueryLevel |-> 0, SlowLevel |-> 0,
           ErrorLevel |-> 0, MessageTemplate |-> "", ErrorTemplate |-> ""]

OptEnabled(on) == [kind |-> "WithEnabled", on |-> on, keys |-> <<>>, opts |-> NoOpts]
OptVerbose(on) == [kind |-> "WithVerbose", on |-> on, keys |-> <<>>, opts |-> NoOpts]
OptFromEnv(keys) == [kind |-> "FromEnv", on |-> FALSE, keys |-> keys, opts |-> NoOpts]
OptQueryHookOptions(o) ==
    [kind |-> "WithQueryHookOptions", on |-> FALSE, keys |-> <<>>, opts |-> o]

\* opt(h)
ApplyOption(opt, h, e) ==
    CASE opt.kind = "WithEnabled" -> [h |-> WithEnabled(opt.on, h), panic |-> ""]
      [] opt.kind = "WithVerbose" -> [h |-> WithVerbose(opt.on, h), panic |-> ""]
      [] opt.kind = "FromEnv" -> [h |-> FromEnv(opt.keys, h, e), panic |-> ""]
      [] OTHER -> WithQueryHookOptions(opt.opts, h)

\* the options applied last to first
RECURSIVE ApplyOptions_Reverse(_, _, _, _)
ApplyOptions_Reverse(opts, i, h, e) ==
    IF i > Len(opts) THEN [h |-> h, panic |-> ""]
    ELSE LET r == ApplyOption(opts[Len(opts) + 1 - i], h, e)
         IN  IF r.panic # "" THEN r ELSE ApplyOptions_Reverse(opts, i + 1, r.h, e)

\* for _, opt := range options { opt(h) }, stopping at the first panic
RECURSIVE ApplyOptions(_, _, _, _)
ApplyOptions(opts, i, h, e) ==
    IF i > Len(opts) THEN [h |-> h, panic |-> ""]
    ELSE LET r == ApplyOption(opts[i], h, e)
         IN  IF r.panic # "" THEN r ELSE ApplyOptions(opts, i + 1, r.h, e)

\* NewQueryHook without its nil check
SettingsMissing_Unchecked(h) == FALSE

\* if h.opts == nil { panic("logrus settings not set.") }
SettingsMissing(h) == h.opts = <<>>

NewQueryHook(opts) ==
    /\ pc = "start"
    /\ LET r == ApplyOptions(opts, 1, NewHook, env)
       IN  /\ options' = opts
           /\ IF r.panic # ""
              THEN /\ pc' = "aborted"
                   /\ panicMsg' = r.panic
                   /\ hook' = hook
              ELSE IF SettingsMissing(r.h)
              THEN /\ pc' = "aborted"
                   /\ panicMsg' = "logrus settings not set."
                   /\ hook' = hook
              ELSE /\ pc' = "ready"
                   /\ panicMsg' = panicMsg
                   /\ hook' = r.h
    /\ UNCHANGED <<env, nLogged, last>>

(***************************************************************************)
(* Query events.  Query is the raw text as a sequence of characters; Err   *)
(* is nil, one of the two database/sql sentinels, or some other error;     *)
(* QueryAppender is the dynamic type of the bun query, "" for none.        *)
(***************************************************************************)
ErrNil == "nil"
ErrNoRows == "sql: no rows in result set"
ErrTxDone == "sql: transaction has already been committed or rolled back"
ErrOther == "pq: relation does not exist"
Errs == {ErrNil, ErrNoRows, ErrTxDone, ErrOther}

OpNameMax == 16

\* strings.Index(name, " "): 0-based index of the first space, -1 for none
RECURSIVE IndexSpace(_, _)
IndexSpace(name, i) ==
    IF i > Len(name) THEN -1
    ELSE IF name[i] = " " THEN i - 1
    ELSE IndexSpace(name, i + 1)

\* queryOperation cutting at a leading space too (idx >= 0)
queryOperation_CutAtZero(name) ==
    LET idx == IndexSpace(name, 1)
        n1 == IF idx >= 0 THEN SubSeq(name, 1, idx) ELSE name
    IN  IF Len(n1) > OpNameMax THEN SubSeq(n1, 1, OpNameMax) ELSE n1

queryOperation(name) ==
    LET idx == IndexSpace(name, 1)
        n1 == IF idx > 0 THEN SubSeq(name, 1, idx) ELSE name
    IN  IF Len(n1) > OpNameMax THEN SubSeq(n1, 1, OpNameMax) ELSE n1

eventOperation(event) ==
    CASE event.QueryAppender = "*bun.SelectQuery" -> <<"S","E","L","E","C","T">>
      [] event.QueryAppender = "*bun.InsertQuery" -> <<"I","N","S","E","R","T">>
      [] event.QueryAppender = "*bun.UpdateQuery" -> <<"U","P","D","A","T","E">>
      [] event.QueryAppender = "*bun.DeleteQuery" -> <<"D","E","L","E","T","E">>
      [] event.QueryAppender = "*bun.CreateTableQuery" ->
            <<"C","R","E","A","T","E"," ","T","A","B","L","E">>
      [] event.QueryAppender = "*bun.DropTableQuery" ->
            <<"D","R","O","P"," ","T","A","B","L","E">>
      [] OTHER -> queryOperation(event.Query)

\* the enabled gate with its negation lost
Disabled_Inverted(h) == h.enabled

\* the enabled gate: if !h.enabled { return }
Disabled(h) == ~h.enabled

\* the non-verbose gate returning for every outcome
Suppressed_EveryOutcome(h, event) == ~h.verbose

\* the non-verbose gate without the sql.ErrTxDone case
Suppressed_NoTxDone(h, event) ==
    ~h.verbose /\ event.Err \in {ErrNil, ErrNoRows}

\* the non-verbose gate: switch event.Err { case nil, ErrNoRows, ErrTxDone: return }
Suppressed(h, event) ==
    ~h.verbose /\ event.Err \in {ErrNil, ErrNoRows, ErrTxDone}

\* isError of the classifying switch
IsError(event) == event.Err \notin {ErrNil, ErrNoRows}

\* the classifying switch with dur > LogSlow for dur >= LogSlow
ResolveLevel_StrictlySlower(o, event, dur) ==
    IF event.Err \in {ErrNil, ErrNoRows}
    THEN IF o.LogSlow > 0 /\ dur > o.LogSlow THEN o.SlowLevel ELSE o.QueryLevel
    ELSE o.ErrorLevel

\* level of the classifying switch
ResolveLevel(o, event, dur) ==
    IF event.Err \in {ErrNil, ErrNoRows}
    THEN IF o.LogSlow > 0 /\ dur >= o.LogSlow THEN o.SlowLevel ELSE o.QueryLevel
    ELSE o.ErrorLevel

\* the template the message is executed with
TemplateFor(h, isError) ==
    IF isError THEN h.errorTemplate[1] ELSE h.messageTemplate[1]

\* the dispatching switch: the Logger method called, "" for the default branch
Dispatch(level) ==
    CASE level = DebugLevel -> "Debug"
      [] level = InfoLevel -> "Info"
      [] level = WarnLevel -> "Warn"
      [] level = ErrorLevel -> "Error"
      [] level = FatalLevel -> "Fatal"
      [] level = PanicLevel -> "Panic"
      [] OTHER -> ""

NoMsg == [f \in {} |-> ""]
NoEvent == [StartTime |-> 0, Query |-> <<>>, Err |-> ErrNil, QueryAppender |-> ""]
NoLast == [ran |-> FALSE, event |-> NoEvent, now |-> 0, outcome |-> "", level |-> -1,
           isError |-> FALSE, operation |-> <<>>, msg |-> NoMsg, method |-> "",
           logged |-> 0]

\* one run of AfterQuery on hook h: what it decided and what it did
AfterQueryRun(h, event, now) ==
    LET dur == now - event.StartTime
        o == h.opts[1]
        level == ResolveLevel(o, event, dur)
        isError == IsError(event)
        args == [Timestamp |-> now, Query |-> event.Query,
                 Operation |-> eventOperation(event), Duration |-> dur,
                 Error |-> event.Err]
        ex == Execute(TemplateFor(h, isError), args)
        method == Dispatch(level)
        skip(why) == [outcome |-> why, level |-> -1, isError |-> FALSE,
                      operation |-> <<>>, msg |-> NoMsg, method |-> "", panic |-> ""]
        run(what, m, meth, p) ==
                     [outcome |-> what, level |-> level, isError |-> isError,
                      operation |-> IF what = "unset" THEN <<>> ELSE args.Operation,
                      msg |-> m, method |-> meth, panic |-> p]
    IN  IF Disabled(h) THEN skip("disabled")
        ELSE IF Suppressed(h, event) THEN skip("suppressed")
        ELSE IF level = 0 THEN run("unset", NoMsg, "", "")
        ELSE IF ex.err # "" THEN run("panic", NoMsg, "", ex.err)
        ELSE IF method = "" THEN run("panic", ex.msg, "", "Unsupported level")
        ELSE IF o.Logger = NilLogger
             THEN run("panic", ex.msg, method, "nil pointer dereference")
        ELSE run("logged", ex.msg, method, "")

AfterQuery(event, now) ==
    /\ pc = "ready"
    /\ nLogged < MaxLogged
    /\ LET r == AfterQueryRun(hook, event, now)
       IN  /\ last' = [ran |-> TRUE, event |-> event, now |-> now,
                       outcome |-> r.outcome, level |-> r.level,
                       isError |-> r.isError, operation |-> r.operation,
                       msg |-> r.msg, method |-> r.method, logged |-> nLogged]
           /\ nLogged' = IF r.outcome = "logged" THEN nLogged + 1 ELSE nLogged
           /\ pc' = IF r.panic # "" THEN "aborted" ELSE pc
           /\ panicMsg' = IF r.panic # "" THEN r.panic ELSE panicMsg
    /\ UNCHANGED <<env, options, hook>>

(***************************************************************************)
(* Inputs.                                                                 *)
(***************************************************************************)
\* every level once in each field, all three different or all three equal
LevelTriples ==
    {<<l, (l + 1) % (MaxLevel + 1), (l + 2) % (MaxLevel + 1)>> : l \in Levels}
        \cup {<<l, l, l>> : l \in Levels}

\* <<MessageTemplate, ErrorTemplate>>
TemplatePairs ==
    {<<"", "">>, <<CustomTemplate, CustomTemplate>>,
     <<UnparsableTemplate, "">>, <<"", UnparsableTemplate>>,
     <<UnknownFieldTemplate, "">>, <<"", UnknownFieldTemplate>>}

MkOpts(slow, logger, t, p) ==
    [LogSlow |-> slow, Logger |-> logger, QueryLevel |-> t[1], SlowLevel |-> t[2],
     ErrorLevel |-> t[3], MessageTemplate |-> p[1], ErrorTemplate |-> p[2]]

\* every level triple with a logger and the default templates, and every
\* logger and template pair with the README's levels or with none set
ConfigOpts ==
    {MkOpts(slow, Logger, t, <<"", "">>) : slow \in {0, MaxSlow}, t \in LevelTriples}
        \cup {MkOpts(MaxSlow, logger, t, p) :
                 logger \in {NilLogger, Logger},
                 t \in {<<DebugLevel, WarnLevel, ErrorLevel>>, <<0, 0, 0>>},
                 p \in TemplatePairs}

\* the option lists of Spec: the settings alone, or the two flags and the settings
ConfigLists ==
    {<<OptQueryHookOptions(o)>> : o \in ConfigOpts}
        \cup {<<OptEnabled(e), OptVerbose(v), OptQueryHookOptions(o)>> :
                 e \in BOOLEAN, v \in BOOLEAN, o \in ConfigOpts}
        \cup {<<>>} \cup {<<OptEnabled(e), OptVerbose(v)>> : e \in BOOLEAN, v \in BOOLEAN}

SelectOne == <<"S","E","L","E","C","T"," ","1">>

StartTimes == {0, 1}

ClassEvents ==
    [StartTime : StartTimes, Query : {SelectOne}, Err : Errs,
     QueryAppender : {"", "*bun.UpdateQuery"}]

Durations == 0..(MaxSlow + 1)

(***************************************************************************)
(* Spec: a process with no debug variable set builds a hook from the       *)
(* settings and the two flags, then receives query events.                 *)
(***************************************************************************)
InitWith(e) ==
    /\ env = e
    /\ pc = "start"
    /\ options = <<>>
    /\ hook = NewHook
    /\ panicMsg = ""
    /\ nLogged = 0
    /\ last = NoLast

Init == InitWith([k \in EnvKeys |-> Unset])

Next ==
    \/ pc = "start" /\ \E opts \in ConfigLists : NewQueryHook(opts)
    \/ pc = "ready" /\ \E event \in ClassEvents, d \in Durations :
                           AfterQuery(event, event.StartTime + d)

Spec == Init /\ [][Next]_vars

(***************************************************************************)
(* Properties of the classifier, checked under Spec.                       *)
(***************************************************************************)
SuccessErrs == {ErrNil, ErrNoRows}
QuietErrs == {ErrNil, ErrNoRows, ErrTxDone}

\* the Logger method that writes at a severity
MethodOf(level) ==
    [l \in 1..5 |-> <<"Fatal", "Error", "Warn", "Info", "Debug">>[l]][level]

LastDur == last.now - last.event.StartTime
PassedGates == last.ran /\ last.outcome \notin {"disabled", "suppressed"}
Renders(fields) == fields[1] \subseteq LogEntryFields

\* C1: a hook whose enabled flag is false never calls the logging backend and
\* never panics, whatever the events, durations, verbose flag and levels.
C1_DisabledNeverLogs ==
    (pc # "start" /\ ~hook.enabled) =>
        /\ nLogged = 0
        /\ last.ran => (pc = "ready" /\ last.outcome = "disabled" /\ last.method = "")

C1_Witness ==
    /\ last.ran /\ ~hook.enabled /\ hook.verbose
    /\ last.event.Err = ErrOther
    /\ hook.opts[1].ErrorLevel = ErrorLevel /\ hook.opts[1].Logger = Logger

C3_NonVerboseQuiet ==
    (last.ran /\ hook.enabled /\ ~hook.verbose /\ last.event.Err \in QuietErrs) =>
        /\ last.outcome = "suppressed"
        /\ last.method = ""
        /\ nLogged = last.logged
        /\ pc = "ready"

C3_Witness ==
    /\ last.ran /\ hook.enabled /\ ~hook.verbose
    /\ last.event.Err = ErrTxDone
    /\ hook.opts[1].LogSlow > 0 /\ LastDur > hook.opts[1].LogSlow
    /\ hook.opts[1].SlowLevel = WarnLevel /\ hook.opts[1].ErrorLevel = ErrorLevel
    /\ hook.opts[1].Logger = Logger

\* C4: past the two gates the resolved severity is, for outcome none or no
\* rows, SlowLevel when LogSlow > 0 and duration >= LogSlow and QueryLevel
\* otherwise, with the message template; for every other outcome ErrorLevel,
\* with the error template.
C4_Severity ==
    PassedGates =>
        LET o == hook.opts[1]
        IN  /\ last.event.Err \in SuccessErrs =>
                 /\ ~last.isError
                 /\ (o.LogSlow > 0 /\ LastDur >= o.LogSlow) =>
                       /\ last.level = o.SlowLevel
                       /\ last.outcome = "logged" => last.method = MethodOf(o.SlowLevel)
                 /\ ~(o.LogSlow > 0 /\ LastDur >= o.LogSlow) => last.level = o.QueryLevel
                 /\ last.outcome = "logged" => DOMAIN last.msg = hook.messageTemplate[1]
            /\ last.event.Err \notin SuccessErrs =>
                 /\ last.isError
                 /\ last.level = o.ErrorLevel
                 /\ last.outcome = "logged" => DOMAIN last.msg = hook.errorTemplate[1]

C4_Witness ==
    /\ PassedGates /\ last.outcome = "logged"
    /\ last.event.Err = ErrNoRows
    /\ hook.opts[1].LogSlow > 0 /\ LastDur = hook.opts[1].LogSlow
    /\ last.level = hook.opts[1].SlowLevel
    /\ hook.opts[1].SlowLevel # hook.opts[1].QueryLevel
    /\ hook.messageTemplate # hook.errorTemplate

\* C5 as stated: past the gates, a resolved severity of debug, info, warn,
\* error, fatal or panic gives exactly one backend call on the method of that
\* severity (the Logger being set and the template rendering), and any other
\* severity aborts without a call.
C5_Claim ==
    (/\ PassedGates
     /\ hook.opts[1].Logger # NilLogger
     /\ Renders(hook.errorTemplate) /\ Renders(hook.messageTemplate)) =>
        /\ last.level \in 0..5 =>
              /\ last.outcome = "logged"
              /\ nLogged = last.logged + 1
              /\ last.method =
                    <<"Panic", "Fatal", "Error", "Warn", "Info", "Debug">>[last.level + 1]
        /\ last.level \notin 0..5 =>
              (pc = "aborted" /\ last.method = "" /\ nLogged = last.logged)

\* C8 as stated: a hook built from WithQueryHookOptions alone logs an error
\* event at the configured error severity and logs no successful event.
C8_Claim ==
    (/\ last.ran
     /\ Len(options) = 1 /\ options[1].kind = "WithQueryHookOptions"
     /\ hook.opts[1].Logger # NilLogger /\ hook.opts[1].ErrorLevel \in 1..5
     /\ Renders(hook.errorTemplate)) =>
        /\ last.event.Err = ErrOther =>
              (last.outcome = "logged" /\ last.method = MethodOf(hook.opts[1].ErrorLevel))
        /\ last.event.Err \in SuccessErrs => last.method = ""

HasSettings(opts) == \E i \in 1..Len(opts) : opts[i].kind = "WithQueryHookOptions"
Constructed == pc = "ready" \/ last.ran

\* C9 as stated: NewQueryHook returns a hook only when the logging
\* configuration with its logger is there, so AfterQuery never runs on a hook
\* that lacks it.

C9_Original ==
    /\ (pc # "start" /\ ~HasSettings(options)) => ~Constructed
    /\ Constructed => (hook.opts # <<>> /\ hook.opts[1].Logger # NilLogger)

\* C9 as amended: NewQueryHook panics with "logrus settings not set." exactly
\* when no WithQueryHookOptions option was applied, returns a hook whenever one
\* was applied and no template failed to parse, and does not look inside the
\* settings: AfterQuery never runs on a hook whose opts is nil, but it can run
\* on one whose Logger is nil.
C9_SettingsChecked ==
    LET parses(t) == t # UnparsableTemplate
        allParse == \A i \in 1..Len(options) :
                        options[i].kind = "WithQueryHookOptions" =>
                            /\ parses(options[i].opts.MessageTemplate)
                            /\ parses(options[i].opts.ErrorTemplate)
    IN  /\ (pc # "start" /\ ~HasSettings(options)) =>
              /\ ~Constructed
              /\ pc = "aborted" /\ panicMsg = "logrus settings not set."
        /\ (pc # "start" /\ HasSettings(options) /\ allParse) => Constructed
        /\ (pc # "start" /\ HasSettings(options) /\ ~allParse) =>
              (~Constructed /\ panicMsg # "logrus settings not set.")
        /\ Constructed => hook.opts # <<>>

C9_Witness ==
    /\ last.ran /\ hook.opts # <<>> /\ hook.opts[1].Logger = NilLogger
    /\ last.outcome = "panic"

(***************************************************************************)
(* SpecEnv: the debug variables hold any values and the hook is built      *)
(* from any list of at most MaxOpts options.                               *)
(***************************************************************************)
ReadmeOpts == MkOpts(0, Logger, <<DebugLevel, WarnLevel, ErrorLevel>>, <<"", "">>)
CustomOpts == MkOpts(MaxSlow, Logger, <<InfoLevel, InfoLevel, FatalLevel>>,
                     <<CustomTemplate, CustomTemplate>>)

OptionAlphabet ==
    {OptEnabled(TRUE), OptEnabled(FALSE), OptVerbose(TRUE), OptVerbose(FALSE),
     OptFromEnv(<<>>), OptFromEnv(<<"DEBUG">>), OptFromEnv(<<"DEBUG", "BUNDEBUG">>),
     OptQueryHookOptions(ReadmeOpts), OptQueryHookOptions(CustomOpts)}

OrderedLists == UNION {[1..n -> OptionAlphabet] : n \in 0..MaxOpts}

EnvEvents ==
    [StartTime : {0}, Query : {SelectOne}, Err : {ErrNil, ErrOther}, QueryAppender : {""}]

InitEnv == \E e \in [EnvKeys -> EnvValues \cup {Unset}] : InitWith(e)

NextEnv ==
    \/ pc = "start" /\ \E opts \in OrderedLists : NewQueryHook(opts)
    \/ pc = "ready" /\ \E event \in EnvEvents : AfterQuery(event, event.StartTime + MaxSlow)

SpecEnv == InitEnv /\ [][NextEnv]_vars

\* C6: FromEnv on one named variable (BUNDEBUG when none is named): unset
\* leaves enabled and verbose as the earlier options left them, "" or "0"
\* sets enabled=false, "2" sets both flags, any other value sets enabled=true
\* and verbose=false.
C6_FromEnv ==
    (/\ pc = "ready"
     /\ Len(options) > 0
     /\ options[Len(options)].kind = "FromEnv"
     /\ Len(options[Len(options)].keys) <= 1) =>
        LET keys == options[Len(options)].keys
            k == IF keys = <<>> THEN "BUNDEBUG" ELSE keys[1]
            before == ApplyOptions(SubSeq(options, 1, Len(options) - 1), 1, NewHook, env).h
        IN  /\ env[k] = Unset =>
                 (hook.enabled = before.enabled /\ hook.verbose = before.verbose)
            /\ env[k] \in {"", "0"} => ~hook.enabled
            /\ env[k] = "2" => (hook.enabled /\ hook.verbose)
            /\ env[k] \notin {Unset, "", "0", "2"} => (hook.enabled /\ ~hook.verbose)
            /\ hook.opts = before.opts

C6_Witness ==
    /\ pc = "ready"
    /\ Len(options) = 3
    /\ options[1] = OptVerbose(TRUE)
    /\ options[3] = OptFromEnv(<<"DEBUG">>)
    /\ env["DEBUG"] = "1" /\ env["BUNDEBUG"] = "2"
    /\ hook.enabled /\ ~hook.verbose

WritesFlags(opt, e) ==
    opt.kind = "FromEnv" /\
        \E k \in EnvKeys :
            /\ e[k] # Unset
            /\ k \in {opt.keys[j] : j \in 1..Len(opt.keys)} \/
                   (opt.keys = <<>> /\ k = "BUNDEBUG")
EnvValueOf(opt, e) ==
    LET ks == IF opt.keys = <<>> THEN <<"BUNDEBUG">> ELSE opt.keys
        set == {j \in 1..Len(ks) : e[ks[j]] # Unset}
        first == CHOOSE j \in set : \A j2 \in set : j <= j2
    IN  e[ks[first]]
LastOf(S) == CHOOSE i \in S : \A j \in S : j <= i

\* C7: options apply in the order given: each field holds what the last option
\* that writes it wrote (the zero value when none does), and
\* WithQueryHookOptions writes neither enabled nor verbose.

C7_LastWriterWins ==
    pc = "ready" =>
        LET n == Len(options)
            en == {i \in 1..n : options[i].kind = "WithEnabled" \/ WritesFlags(options[i], env)}
            vb == {i \in 1..n : options[i].kind = "WithVerbose" \/ WritesFlags(options[i], env)}
            st == {i \in 1..n : options[i].kind = "WithQueryHookOptions"}
            enOpt == options[LastOf(en)]
            vbOpt == options[LastOf(vb)]
            stOpt == options[LastOf(st)].opts
        IN  /\ hook.enabled =
                  IF en = {} THEN FALSE
                  ELSE IF enOpt.kind = "WithEnabled" THEN enOpt.on
                  ELSE EnvValueOf(enOpt, env) \notin {"", "0"}
            /\ hook.verbose =
                  IF vb = {} THEN FALSE
                  ELSE IF vbOpt.kind = "WithVerbose" THEN vbOpt.on
                  ELSE EnvValueOf(vbOpt, env) = "2"
            /\ st # {}
            /\ hook.opts[1].Logger = stOpt.Logger
            /\ hook.opts[1].LogSlow = stOpt.LogSlow
            /\ hook.opts[1].QueryLevel = stOpt.QueryLevel
            /\ hook.opts[1].SlowLevel = stOpt.SlowLevel
            /\ hook.opts[1].ErrorLevel = stOpt.ErrorLevel
            /\ hook.opts[1].MessageTemplate =
                  IF stOpt.MessageTemplate = "" THEN DefaultMessageTemplate
                  ELSE stOpt.MessageTemplate
            /\ hook.opts[1].ErrorTemplate =
                  IF stOpt.ErrorTemplate = "" THEN DefaultErrorTemplate
                  ELSE stOpt.ErrorTemplate
            /\ options = <<OptEnabled(FALSE), OptFromEnv(<<>>),
                           OptQueryHookOptions(ReadmeOpts)>> =>
                  /\ env["BUNDEBUG"] = "2" => (hook.enabled /\ hook.verbose)
                  /\ env["BUNDEBUG"] = Unset => ~hook.enabled

C7_Witness ==
    /\ pc = "ready"
    /\ options = <<OptEnabled(FALSE), OptFromEnv(<<>>), OptQueryHookOptions(ReadmeOpts)>>
    /\ env["BUNDEBUG"] = "2"
    /\ hook.enabled /\ hook.verbose

(***************************************************************************)
(* SpecOperation: an enabled hook receives events of every query kind and  *)
(* of raw texts with a first word of up to MaxWord characters.             *)
(***************************************************************************)
Word(c, n) == [i \in 1..n |-> c]
Spaces == {<<>>, <<" ">>}

Texts ==
    {Word("a", i) \o s1 \o Word("b", j) \o s2 :
        i \in 0..MaxWord, s1 \in Spaces, j \in 0..1, s2 \in Spaces}

Appenders ==
    {"", "*bun.SelectQuery", "*bun.InsertQuery", "*bun.UpdateQuery", "*bun.DeleteQuery",
     "*bun.CreateTableQuery", "*bun.DropTableQuery", "*bun.RawQuery"}

OperationLists ==
    {<<OptEnabled(TRUE), OptVerbose(v), OptQueryHookOptions(ReadmeOpts)>> : v \in BOOLEAN}

\* every text with no recognized kind, and every kind with two of the texts
OperationEvents ==
    [StartTime : {0}, Query : Texts, Err : {ErrOther}, QueryAppender : {"", "*bun.RawQuery"}]
        \cup [StartTime : {0}, Query : {SelectOne, <<" ">>}, Err : {ErrOther},
              QueryAppender : Appenders]

NextOperation ==
    \/ pc = "start" /\ \E opts \in OperationLists : NewQueryHook(opts)
    \/ pc = "ready" /\ \E event \in OperationEvents : AfterQuery(event, event.StartTime + 1)

SpecOperation == Init /\ [][NextOperation]_vars

Keyword ==
    [a \in Appenders \ {"", "*bun.RawQuery"} |->
        CASE a = "*bun.SelectQuery" -> <<"S","E","L","E","C","T">>
          [] a = "*bun.InsertQuery" -> <<"I","N","S","E","R","T">>
          [] a = "*bun.UpdateQuery" -> <<"U","P","D","A","T","E">>
          [] a = "*bun.DeleteQuery" -> <<"D","E","L","E","T","E">>
          [] a = "*bun.CreateTableQuery" -> <<"C","R","E","A","T","E"," ","T","A","B","L","E">>
          [] a = "*bun.DropTableQuery" -> <<"D","R","O","P"," ","T","A","B","L","E">>]

SpacesOf(text) == {i \in 1..Len(text) : text[i] = " "}
FirstOf(S) == CHOOSE i \in S : \A j \in S : i <= j
AtMost16(text) == [i \in 1..(IF Len(text) < 16 THEN Len(text) ELSE 16) |-> text[i]]

\* C10 as stated: the operation name is the keyword of a recognized query
\* kind, otherwise the text before its first space (the whole text when it has
\* none), cut to at most 16 characters.
C10_Original ==
    (last.ran /\ last.outcome = "logged") =>
        LET text == last.event.Query
            sp == SpacesOf(text)
        IN  last.operation =
                IF last.event.QueryAppender \in DOMAIN Keyword
                THEN Keyword[last.event.QueryAppender]
                ELSE AtMost16(IF sp = {} THEN text
                              ELSE [i \in 1..(FirstOf(sp) - 1) |-> text[i]])

\* C10 as amended: as stated, except that a text whose first character is a
\* space is not cut at that space: the whole text is kept, then cut to at most
\* 16 characters.
C10_OperationName ==
    (last.ran /\ last.outcome = "logged") =>
        LET text == last.event.Query
            sp == SpacesOf(text)
        IN  last.operation =
                IF last.event.QueryAppender \in DOMAIN Keyword
                THEN Keyword[last.event.QueryAppender]
                ELSE AtMost16(IF sp = {} \/ FirstOf(sp) = 1 THEN text
                              ELSE [i \in 1..(FirstOf(sp) - 1) |-> text[i]])

C10_Witness ==
    /\ last.ran /\ last.outcome = "logged"
    /\ last.event.QueryAppender = "*bun.RawQuery"
    /\ SpacesOf(last.event.Query) # {}
    /\ FirstOf(SpacesOf(last.event.Query)) > 17
    /\ Len(last.operation) = 16

====
